---- MODULE Spec2Model ----
(***************************************************************************)
(* Ingestion pipeline of lib/infra/ingestion/pipeline.ts                   *)
(* (src/unnamed/part_001): the change cache table fed by the bucket's      *)
(* object-created / object-removed notifications, and the Step Functions   *)
(* state machine                                                           *)
(*   inputValidationTask -> vectorStoreManagementTask -> ingestionChoice   *)
(*        -> (DistributedMap of embeddingsTask) -> Succeed.                *)
(* The Lambda and container code the pipeline deploys (cache_update,       *)
(* input_validation, vector_store_management, embeddings) is not part of   *)
(* the sources; what those handlers do is taken from spec.md and marked so *)
(* below.  Everything the state machine itself decides (order of states,   *)
(* the choice rule, the map's concurrency, the absence of Retry / Catch,   *)
(* the IAM grants) is taken from the CDK code.                             *)
(***************************************************************************)
EXTENDS Integers, Sequences, FiniteSets, TLC

\* ---------------------------------------------------------------- bounds
NumDocs == 2
MaxFp == 2
NumExecs == 2
MaxEvents == 1
MaxPending == 2

Docs == 1..NumDocs
Fps == 1..MaxFp
Execs == 1..NumExecs

\* ------------------------------------------------- program configuration
\* (variant: the concurrency the migration notes announce)
maxConcurrencyAnnounced == 3

\* DistributedMap { maxConcurrency: 1 }
maxConcurrency == 1
\* The DistributedMap sets no toleratedFailurePercentage: the default, 0.
toleratedFailurePercentage == 0

\* ----------------------------------------------------------------- state
VARIABLES
    corpus,      \* input assets bucket: doc -> fingerprint, 0 = no object
    events,      \* bucket notifications not yet handled by cacheUpdateLambda
    cache,       \* cacheTable: doc -> entry | NoEntry
    vectors,     \* vector store: doc -> fingerprint embedded, 0 = none
    stage,       \* execution -> stage of the state machine execution
    listing,     \* execution -> bucket listing its validation consumed
    isValid,     \* execution -> $.Payload.isValid of inputValidationTask
    manifest,    \* execution -> ingestion_input/<name>/config.json
    dispatched,  \* execution -> item indexes the map has started a task for
    inflight,    \* execution -> item indexes whose ECS task is running
    results,     \* execution -> per-item results recorded by the map run
    abortCause,  \* execution -> why the execution failed / was stopped
    attempts,    \* execution -> item index -> ECS tasks started for the item
    bookkeeper,  \* execution -> outcomes of vectorStoreManagementTask
    resultLocation, \* execution -> prefix the map run's results are under
    vectorsRemoved, \* execution -> running Delete items, vectors removed
    deployment,  \* corpus configuration and the environments synthesized
    message      \* chat message text and the parts it was parsed into

vars == <<corpus, events, cache, vectors, stage, listing, isValid, manifest,
          dispatched, inflight, results, abortCause, attempts, bookkeeper,
          resultLocation, vectorsRemoved, deployment, message>>

\* What the pipeline's run-time operations never touch.
appVars == <<deployment, message>>

NoEntry == [fingerprint |-> 0, status |-> "None"]

\* An execution whose validation has not returned has consumed no listing.
NoListing == <<>>

\* A map run that has not ended has exported no result.
NoLocation == <<>>

\* Item indexes a manifest can have.
ItemIdx == 1..(2 * NumDocs)

\* (variant: a timeout on the task, reported as States.Timeout)
ErrorKindsWithTimeout == {"transient", "malformed", "task", "timeout"}

\* How the task of an item fails: a retryable error (model invocation,
\* vector store write) or a malformed document, both reported by the
\* container, or the ECS task itself ending without the container having
\* handled anything (it could not be started, or was killed).  No task of
\* the definition has a timeout, so States.Timeout is not among them.
ErrorKinds == {"transient", "malformed", "task"}

Statuses == {"Pending", "Processing", "Complete", "Failed", "Deleted"}

Stages == {"NotStarted", "Validating", "Bookkeeping", "FanningOut",
           "Finalized", "Aborted"}

Terminal == {"Finalized", "Aborted"}

\* ------------------------------------------------------------ sequences
RECURSIVE SortedSeq(_)
SortedSeq(S) ==
    IF S = {} THEN <<>>
    ELSE LET m == CHOOSE x \in S : \A y \in S : x <= y
         IN <<m>> \o SortedSeq(S \ {m})

\* ---------------------------------------------------------- change cache
\* GSI1: partition key UpdatedStatus, sort key FileURI.  A query of the
\* index for one status returns the entries of that status, ordered by uri.
\* (variant: the query is not keyed by status and returns every entry)
ScanAll(c, s) == SortedSeq({d \in Docs : c[d] # NoEntry})

ScanByStatus(c, s) == SortedSeq({d \in Docs : c[d].status = s})

\* (variant: every Upsert sets the entry Pending)
UpsertAlways(c, id, fp) ==
    {[c EXCEPT ![id] = [fingerprint |-> fp, status |-> "Pending"]]}

\* Upsert(id, fingerprint): creates a Pending entry; a different stored
\* fingerprint is replaced and the entry set Pending; the same fingerprint on
\* a Complete entry changes nothing.  What a matching fingerprint does to an
\* entry that is not Complete is left open: either outcome is allowed.
Upsert(c, id, fp) ==
    IF c[id] = NoEntry \/ c[id].fingerprint # fp
    THEN {[c EXCEPT ![id] = [fingerprint |-> fp, status |-> "Pending"]]}
    ELSE IF c[id].status = "Complete"
    THEN {c}
    ELSE {c, [c EXCEPT ![id].status = "Pending"]}

\* (variant: the handler leaves the entry of a removed object as it is)
MarkDeletedIgnored(c, id) == c

\* (variant: the handler removes the entry of a removed object at once)
MarkDeletedRemoves(c, id) == [c EXCEPT ![id] = NoEntry]

MarkDeleted(c, id) ==
    IF c[id] = NoEntry THEN c ELSE [c EXCEPT ![id].status = "Deleted"]

\* ------------------------------------------------------ validation stage
UpsertItems(c) ==
    LET s == ScanByStatus(c, "Pending")
    IN [i \in 1..Len(s) |->
          [uri |-> s[i], action |-> "Upsert", fp |-> c[s[i]].fingerprint]]

DeleteItems(c) ==
    LET s == ScanByStatus(c, "Deleted")
    IN [i \in 1..Len(s) |->
          [uri |-> s[i], action |-> "Delete", fp |-> c[s[i]].fingerprint]]

\* ScanByStatus(Pending) followed by ScanByStatus(Deleted-pending-removal)
BuildManifest(c) == UpsertItems(c) \o DeleteItems(c)

\* isValid = corpus non-empty and no structural errors in the listing
ComputeIsValid(objects, structErr) ==
    (\E d \in Docs : objects[d] # 0) /\ ~structErr

\* ------------------------------------------------- state machine wiring
\* (variant: the validation task chained to the map, past the bookkeeper)
inputValidationSkip == "FanningOut"

\* inputValidationTask.next(vectorStoreManagementTask ...)
inputValidationNext == "Bookkeeping"

\* (variant: the choice always takes the map)
ingestionChoiceAlways(valid) == "FanningOut"

\* ingestionChoice.when(booleanEquals('$.Payload.isValid', false), succeedTask)
\*                .otherwise(runFilesInParallel.next(succeedTask))
ingestionChoice(valid) == IF valid = FALSE THEN "Finalized" ELSE "FanningOut"

\* (variant: the map is chained back to the validation task)
runFilesInParallelLoop == "Validating"

\* runFilesInParallel.next(succeedTask)
runFilesInParallelNext == "Finalized"

\* (variant: a Catch on the bookkeeping task that carries on with the map)
taskFailedCaught(task) ==
    IF task = "bookkeeping" THEN "FanningOut" ELSE "Aborted"

\* No task of the definition has a Catch (and embeddingsTask no Retry): a
\* failed task fails the execution.
taskFailedNext(task) == "Aborted"

\* ------------------------------------------------------- distributed map
\* $$.Execution.Name: unique among the executions of the state machine.
ExecutionName(e) == e

\* itemReader key: 'ingestion_input/{}/config.json' of $$.Execution.Name
itemReaderKey(name) == <<"ingestion_input", name, "config.json">>

\* (variant: a result prefix that does not carry the execution name)
resultWriterPrefixShared(name) == <<"ingestion_output", "sf-results">>

\* resultWriter prefix: 'ingestion_output/{}/sf-results' of $$.Execution.Name
resultWriterPrefix(name) == <<"ingestion_output", name, "sf-results">>

\* The record the map run keeps of an item's child execution.
ItemResult(e, i, outcome, error) ==
    [idx |-> i, uri |-> manifest[e][i].uri, outcome |-> outcome,
     error |-> error,
     key |-> itemReaderKey(ExecutionName(e)),
     prefix |-> resultWriterPrefix(ExecutionName(e))]

Items(e) == 1..Len(manifest[e])

HasResult(e, i) == \E k \in 1..Len(results[e]) : results[e][k].idx = i

FailedItems(e) ==
    {i \in Items(e) :
        \E k \in 1..Len(results[e]) :
            results[e][k].idx = i /\ results[e][k].outcome = "Failed"}

\* (variant: the map without its concurrency limit)
CanDispatchUnbounded(e, i) ==
    /\ i \in Items(e)
    /\ i \notin inflight[e]
    /\ ~HasResult(e, i)

\* The map starts a child execution for an item that has none yet, while
\* fewer than maxConcurrency children are running.
CanDispatch(e, i) ==
    /\ i \in Items(e)
    /\ i \notin inflight[e]
    /\ ~HasResult(e, i)
    /\ Cardinality(inflight[e]) < maxConcurrency

\* The map run fails once the share of failed items is above the tolerated
\* percentage.
MapRunFails(nFailed, nItems) ==
    nFailed * 100 > toleratedFailurePercentage * nItems

\* (variant: the map run ends as soon as no child is running)
MapRunCompleteEarly(e) == inflight[e] = {}

\* The map run is complete when every item's child execution has ended.
MapRunComplete(e) ==
    /\ inflight[e] = {}
    /\ \A i \in Items(e) : HasResult(e, i)

\* -------------------------------------------------------- embedding task
\* What a successful worker leaves in the cache and the vector store.
WorkerCache(c, item) ==
    IF item.action = "Upsert"
    THEN [c EXCEPT ![item.uri] =
              [fingerprint |-> item.fp, status |-> "Complete"]]
    ELSE [c EXCEPT ![item.uri] = NoEntry]

WorkerVectors(v, item) ==
    IF item.action = "Upsert"
    THEN [v EXCEPT ![item.uri] = item.fp]
    ELSE [v EXCEPT ![item.uri] = 0]

\* A failed Upsert leaves the entry Failed.
WorkerFailedCache(c, item) ==
    IF item.action = "Upsert" /\ c[item.uri] # NoEntry
    THEN [c EXCEPT ![item.uri].status = "Failed"]
    ELSE c

\* ------------------------------------------------------------------ init
\* The deployed pipeline before anything was uploaded or started.
InitPipeline ==
    /\ corpus = [d \in Docs |-> 0]
    /\ events = {}
    /\ cache = [d \in Docs |-> NoEntry]
    /\ vectors = [d \in Docs |-> 0]
    /\ stage = [e \in Execs |-> "NotStarted"]
    /\ listing = [e \in Execs |-> NoListing]
    /\ isValid = [e \in Execs |-> FALSE]
    /\ manifest = [e \in Execs |-> <<>>]
    /\ dispatched = [e \in Execs |-> {}]
    /\ inflight = [e \in Execs |-> {}]
    /\ results = [e \in Execs |-> <<>>]
    /\ abortCause = [e \in Execs |-> "none"]
    /\ attempts = [e \in Execs |-> [i \in ItemIdx |-> 0]]
    /\ bookkeeper = [e \in Execs |-> <<>>]
    /\ resultLocation = [e \in Execs |-> NoLocation]
    /\ vectorsRemoved = [e \in Execs |-> {}]

NoEnvironment == [chunkSize |-> <<>>, chunkOverlap |-> <<>>]

NoBatchConfiguration == [bookkeeper |-> NoEnvironment, worker |-> NoEnvironment]

NoDeployment ==
    [config |-> [chunkSize |-> 0, chunkOverlap |-> 0],
     embeddings |-> NoEnvironment,
     bookkeeper |-> NoEnvironment,
     batch |-> NoBatchConfiguration]

NoMessage == [text |-> <<>>, parsed |-> FALSE, parts |-> <<>>]

Init ==
    /\ InitPipeline
    /\ deployment = NoDeployment
    /\ message = NoMessage

execVars == <<stage, listing, isValid, manifest, dispatched, inflight,
              results, abortCause, attempts, bookkeeper, resultLocation,
              vectorsRemoved>>

\* ------------------------------------------------- bucket and its events
CreatedEvent(d, f) == [type |-> "created", doc |-> d, fp |-> f]
RemovedEvent(d) == [type |-> "removed", doc |-> d, fp |-> 0]

\* An object is written to the input assets bucket (new or new content):
\* the bucket emits OBJECT_CREATED towards cacheUpdateLambda.
PutObject(d, f) ==
    /\ CreatedEvent(d, f) \notin events
    /\ Cardinality(events) < MaxEvents
    /\ corpus' = [corpus EXCEPT ![d] = f]
    /\ events' = events \cup {CreatedEvent(d, f)}
    /\ UNCHANGED <<appVars, cache, vectors, execVars>>

\* An object is removed: the bucket emits OBJECT_REMOVED.
DeleteObject(d) ==
    /\ corpus[d] # 0
    /\ RemovedEvent(d) \notin events
    /\ Cardinality(events) < MaxEvents
    /\ corpus' = [corpus EXCEPT ![d] = 0]
    /\ events' = events \cup {RemovedEvent(d)}
    /\ UNCHANGED <<appVars, cache, vectors, execVars>>

\* cacheUpdateLambda handles one notification.
CacheUpdate(ev) ==
    /\ ev \in events
    /\ events' = events \ {ev}
    /\ IF ev.type = "created"
       THEN cache' \in Upsert(cache, ev.doc, ev.fp)
       ELSE cache' = MarkDeleted(cache, ev.doc)
    /\ UNCHANGED <<appVars, corpus, vectors, execVars>>

\* ----------------------------------------------------------- executions
\* StartExecution on the state machine; executions are numbered in the
\* order they are started.
StartExecution(e) ==
    /\ stage[e] = "NotStarted"
    /\ \A p \in Execs : p < e => stage[p] # "NotStarted"
    /\ stage' = [stage EXCEPT ![e] = "Validating"]
    /\ UNCHANGED <<appVars, corpus, events, cache, vectors, listing, isValid,
                   manifest, dispatched, inflight, results, abortCause,
                   attempts, bookkeeper, resultLocation, vectorsRemoved>>

\* (variant: validation brings the cache up to date with the listing itself)
ValidationCacheSync(c, objects) ==
    [d \in Docs |->
        IF objects[d] # 0
        THEN IF c[d] = NoEntry \/ c[d].fingerprint # objects[d]
             THEN [fingerprint |-> objects[d], status |-> "Pending"]
             ELSE c[d]
        ELSE MarkDeleted(c, d)[d]]

\* What validation leaves in the cache: cacheTable.grantReadData only, so
\* what it found.
ValidationCache(c, objects) == c

\* inputValidationFunction returns: it has read the bucket listing and the
\* cache (read-only grant), written the manifest, and returned isValid.
ValidationSucceeds(e, structErr) ==
    /\ stage[e] = "Validating"
    /\ listing' = [listing EXCEPT ![e] = corpus]
    /\ manifest' = [manifest EXCEPT ![e] = BuildManifest(cache)]
    /\ isValid' = [isValid EXCEPT ![e] = ComputeIsValid(corpus, structErr)]
    /\ stage' = [stage EXCEPT ![e] = inputValidationNext]
    /\ cache' = ValidationCache(cache, corpus)
    /\ UNCHANGED <<appVars, corpus, events, vectors, dispatched, inflight,
                   results, abortCause, attempts, bookkeeper,
                   resultLocation, vectorsRemoved>>

\* inputValidationFunction raises (e.g. the listing cannot be read).
ValidationFails(e) ==
    /\ stage[e] = "Validating"
    /\ stage' = [stage EXCEPT ![e] = taskFailedNext("validation")]
    /\ abortCause' = [abortCause EXCEPT ![e] = "validation"]
    /\ UNCHANGED <<appVars, corpus, events, cache, vectors, listing, isValid,
                   manifest, dispatched, inflight, results, attempts,
                   bookkeeper, resultLocation, vectorsRemoved>>

\* (variant: the task without a resultPath, its result becoming the state)
resultPathDefault == "$"

\* vectorStoreManagementTask { resultPath: JsonPath.DISCARD }
vectorStoreManagementResultPath == "DISCARD"

\* What the bookkeeper returns has no Payload.isValid.
vectorStoreManagementResult == [hasIsValid |-> FALSE, isValid |-> FALSE]

\* The choice state on its input: a rule on a path that the input does not
\* have fails the execution (States.Runtime).
choiceNext(input) ==
    IF input.hasIsValid THEN ingestionChoice(input.isValid)
    ELSE taskFailedNext("choice")

\* The output of a task state: with DISCARD the state's input, unchanged;
\* otherwise the task's result.
ApplyResultPath(path, input, result) ==
    IF path = "DISCARD" THEN input ELSE result

\* The outcomes of the bookkeeper invocations of an execution, the first
\* MaxOutcomes of them.
MaxOutcomes == 2

RecordOutcome(log, outcome) ==
    IF Len(log) < MaxOutcomes THEN Append(log, outcome) ELSE log

\* vectorStoreManagementFunction returns ok; its result is discarded and
\* ingestionChoice is evaluated on the validation payload.
BookkeepingSucceeds(e) ==
    /\ stage[e] = "Bookkeeping"
    /\ stage' = [stage EXCEPT ![e] =
           choiceNext(
               ApplyResultPath(vectorStoreManagementResultPath,
                               [hasIsValid |-> TRUE, isValid |-> isValid[e]],
                               vectorStoreManagementResult))]
    /\ bookkeeper' = [bookkeeper EXCEPT ![e] = RecordOutcome(@, "ok")]
    /\ UNCHANGED <<appVars, corpus, events, cache, vectors, listing, isValid,
                   manifest, dispatched, inflight, results, abortCause,
                   attempts, resultLocation, vectorsRemoved>>

BookkeepingFails(e) ==
    /\ stage[e] = "Bookkeeping"
    /\ stage' = [stage EXCEPT ![e] = taskFailedNext("bookkeeping")]
    /\ abortCause' = [abortCause EXCEPT ![e] = "bookkeeping"]
    /\ bookkeeper' = [bookkeeper EXCEPT ![e] = RecordOutcome(@, "error")]
    /\ UNCHANGED <<appVars, corpus, events, cache, vectors, listing, isValid,
                   manifest, dispatched, inflight, results, attempts,
                   resultLocation, vectorsRemoved>>

\* The map starts the ECS task of one item.
DispatchItem(e, i) ==
    /\ stage[e] = "FanningOut"
    /\ CanDispatch(e, i)
    /\ inflight' = [inflight EXCEPT ![e] = @ \cup {i}]
    /\ dispatched' = [dispatched EXCEPT ![e] = @ \cup {i}]
    /\ attempts' = [attempts EXCEPT ![e][i] = @ + 1]
    /\ UNCHANGED <<appVars, corpus, events, cache, vectors, stage, listing, isValid,
                   manifest, results, abortCause, bookkeeper,
                   resultLocation, vectorsRemoved>>

\* The running task of a Delete item removes the document's vectors from
\* the vector store; the cache entry is removed after that, when it ends.
RemoveVectors(e, i) ==
    /\ stage[e] = "FanningOut"
    /\ i \in inflight[e]
    /\ i \notin vectorsRemoved[e]
    /\ manifest[e][i].action = "Delete"
    /\ vectors' = WorkerVectors(vectors, manifest[e][i])
    /\ vectorsRemoved' = [vectorsRemoved EXCEPT ![e] = @ \cup {i}]
    /\ UNCHANGED <<appVars, corpus, events, cache, stage, listing, isValid,
                   manifest, dispatched, inflight, results, abortCause,
                   attempts, bookkeeper, resultLocation>>

\* The ECS task of item i exits 0.  An Upsert needs the object to fetch; a
\* Delete has removed the vectors (RemoveVectors) and now removes the entry.
\* The task writes the document's result file under the result prefix of
\* its EXECUTION_NAME.
ItemSucceeds(e, i) ==
    /\ stage[e] = "FanningOut"
    /\ i \in inflight[e]
    /\ LET item == manifest[e][i]
       IN /\ item.action = "Upsert" => corpus[item.uri] # 0
          /\ item.action = "Delete" => i \in vectorsRemoved[e]
          /\ cache' = WorkerCache(cache, item)
          /\ vectors' = IF item.action = "Delete"
                        THEN vectors
                        ELSE WorkerVectors(vectors, item)
          /\ results' = [results EXCEPT ![e] =
                 Append(@, ItemResult(e, i, "Succeeded", "none"))]
    /\ inflight' = [inflight EXCEPT ![e] = @ \ {i}]
    /\ resultLocation' = [resultLocation EXCEPT ![e] =
           resultWriterPrefix(ExecutionName(e))]
    /\ vectorsRemoved' = [vectorsRemoved EXCEPT ![e] = @ \ {i}]
    /\ UNCHANGED <<appVars, corpus, events, stage, listing, isValid, manifest,
                   dispatched, abortCause, attempts, bookkeeper>>

\* The ECS task of item i fails (States.TaskFailed).  With no Retry and no
\* Catch the child execution fails, and the map run with it once the
\* tolerated share is exceeded; the other running children are stopped and
\* the failed map run exports what it has under the result prefix.
ItemFails(e, i, kind) ==
    /\ stage[e] = "FanningOut"
    /\ i \in inflight[e]
    /\ LET item == manifest[e][i]
           fails == MapRunFails(Cardinality(FailedItems(e)) + 1,
                                Len(manifest[e]))
       IN /\ cache' = IF kind = "task" THEN cache
                       ELSE WorkerFailedCache(cache, item)
          /\ results' = [results EXCEPT ![e] =
                 Append(@, ItemResult(e, i, "Failed", kind))]
          /\ IF fails
             THEN /\ stage' = [stage EXCEPT ![e] = taskFailedNext("item")]
                  /\ abortCause' = [abortCause EXCEPT ![e] = "item"]
                  /\ inflight' = [inflight EXCEPT ![e] = {}]
                  /\ vectorsRemoved' = [vectorsRemoved EXCEPT ![e] = {}]
                  /\ resultLocation' = [resultLocation EXCEPT ![e] =
                         resultWriterPrefix(ExecutionName(e))]
             ELSE /\ inflight' = [inflight EXCEPT ![e] = @ \ {i}]
                  /\ vectorsRemoved' = [vectorsRemoved EXCEPT ![e] = @ \ {i}]
                  /\ UNCHANGED <<stage, abortCause, resultLocation>>
    /\ UNCHANGED <<appVars, corpus, events, vectors, listing, isValid, manifest,
                   dispatched, attempts, bookkeeper>>

\* Every item has ended: the map run exports its results under the result
\* prefix and the map state succeeds.
MapRunSucceeds(e) ==
    /\ stage[e] = "FanningOut"
    /\ MapRunComplete(e)
    /\ stage' = [stage EXCEPT ![e] = runFilesInParallelNext]
    /\ resultLocation' = [resultLocation EXCEPT ![e] =
           resultWriterPrefix(ExecutionName(e))]
    /\ UNCHANGED <<appVars, corpus, events, cache, vectors, listing, isValid,
                   manifest, dispatched, inflight, results, abortCause,
                   attempts, bookkeeper, vectorsRemoved>>

\* StopExecution by an operator: the execution is aborted and the running
\* ECS tasks are stopped (ecs:StopTask) without a result.  Whether the
\* aborted map run still exports what it has is not fixed by the definition:
\* either outcome is allowed.
StopExecution(e) ==
    /\ stage[e] \in {"Validating", "Bookkeeping", "FanningOut"}
    /\ stage' = [stage EXCEPT ![e] = "Aborted"]
    /\ abortCause' = [abortCause EXCEPT ![e] = "stopped"]
    /\ inflight' = [inflight EXCEPT ![e] = {}]
    /\ vectorsRemoved' = [vectorsRemoved EXCEPT ![e] = {}]
    /\ IF stage[e] = "FanningOut"
       THEN resultLocation' \in
               {resultLocation,
                [resultLocation EXCEPT ![e] =
                    resultWriterPrefix(ExecutionName(e))]}
       ELSE UNCHANGED resultLocation
    /\ UNCHANGED <<appVars, corpus, events, cache, vectors, listing, isValid,
                   manifest, dispatched, results, attempts, bookkeeper>>

\* Steps of the bucket, of the cache-update handler, and of one execution.
CorpusStep ==
    \/ \E d \in Docs, f \in Fps : PutObject(d, f)
    \/ \E d \in Docs : DeleteObject(d)

CacheUpdateStep == \E ev \in events : CacheUpdate(ev)

ExecStep(e) ==
    \/ StartExecution(e)
    \/ \E structErr \in BOOLEAN : ValidationSucceeds(e, structErr)
    \/ ValidationFails(e)
    \/ BookkeepingSucceeds(e)
    \/ BookkeepingFails(e)
    \/ \E i \in ItemIdx : DispatchItem(e, i)
    \/ \E i \in ItemIdx : RemoveVectors(e, i)
    \/ \E i \in ItemIdx : ItemSucceeds(e, i)
    \/ \E i \in ItemIdx, kind \in ErrorKinds : ItemFails(e, i, kind)
    \/ MapRunSucceeds(e)
    \/ StopExecution(e)

\* The bucket and the cache-update handler alone, with up to MaxPending
\* notifications not yet handled: S3 delivers notifications to the function
\* asynchronously and does not order them, and the function's invocations
\* run side by side.
PutObjectAsync(d, f) ==
    /\ CreatedEvent(d, f) \notin events
    /\ Cardinality(events) < MaxPending
    /\ corpus' = [corpus EXCEPT ![d] = f]
    /\ events' = events \cup {CreatedEvent(d, f)}
    /\ UNCHANGED <<appVars, cache, vectors, execVars>>

DeleteObjectAsync(d) ==
    /\ corpus[d] # 0
    /\ RemovedEvent(d) \notin events
    /\ Cardinality(events) < MaxPending
    /\ corpus' = [corpus EXCEPT ![d] = 0]
    /\ events' = events \cup {RemovedEvent(d)}
    /\ UNCHANGED <<appVars, cache, vectors, execVars>>

NextCache ==
    \/ \E d \in Docs, f \in Fps : PutObjectAsync(d, f)
    \/ \E d \in Docs : DeleteObjectAsync(d)
    \/ CacheUpdateStep

SpecCache == Init /\ [][NextCache]_vars

\* One batch execution, with the bucket changing at any time.
Next ==
    \/ CorpusStep
    \/ CacheUpdateStep
    \/ ExecStep(1)

Spec == Init /\ [][Next]_vars

\* Batch executions running at the same time: the state machine accepts a
\* StartExecution while another execution is running.  The bucket changes
\* before the first execution is started.
NextConcurrent ==
    \/ (\A e \in Execs : stage[e] = "NotStarted") /\ CorpusStep
    \/ CacheUpdateStep
    \/ \E e \in Execs : ExecStep(e)

SpecConcurrent == Init /\ [][NextConcurrent]_vars

\* What the services guarantee to happen: a handler that was invoked returns
\* (Lambda functions have a bounded run time), and the state machine takes
\* the transitions that are its own.  Nothing makes an ECS task return: the
\* definition sets no timeout and no heartbeat on embeddingsTask.
ServiceStep(e) ==
    \/ \E structErr \in BOOLEAN : ValidationSucceeds(e, structErr)
    \/ ValidationFails(e)
    \/ BookkeepingSucceeds(e)
    \/ BookkeepingFails(e)
    \/ \E i \in ItemIdx : DispatchItem(e, i)
    \/ MapRunSucceeds(e)

SpecFair ==
    /\ Init
    /\ [][Next]_vars
    /\ WF_vars(CacheUpdateStep)
    /\ WF_vars(ServiceStep(1))

\* Two batch executions in a row, the second started after the first has
\* ended.  The bucket changes before the first execution, and by one object
\* between the two; it does not change while an execution is running.
NoneRunning == \A e \in Execs : stage[e] \in {"NotStarted"} \cup Terminal

CorpusMayChange ==
    /\ NoneRunning
    /\ \A e \in Execs : stage[e] \in Terminal => corpus = listing[e]

NextTwoRuns ==
    \/ CorpusMayChange /\ CorpusStep
    \/ CacheUpdateStep
    \/ \E e \in Execs :
         /\ \A p \in Execs : p < e => stage[p] \in Terminal
         /\ ExecStep(e)

SpecTwoRuns == Init /\ [][NextTwoRuns]_vars

\* ================================================================ claims
ManifestUris(m) == {m[i].uri : i \in 1..Len(m)}

ResultUris(e) == {results[e][k].uri : k \in 1..Len(results[e])}

RecordsOf(e, d) == {k \in 1..Len(results[e]) : results[e][k].uri = d}

ItemsOf(m, d) == {i \in 1..Len(m) : m[i].uri = d}

Waiting(e) == {i \in Items(e) : i \notin inflight[e] /\ ~HasResult(e, i)}

\* Exactly one record per manifest item, and no record of another uri.
ResultsMatchManifest(e) ==
    /\ \A i \in Items(e) : Cardinality(RecordsOf(e, manifest[e][i].uri)) = 1
    /\ ResultUris(e) \subseteq ManifestUris(manifest[e])

ValidationStep(e) == stage[e] = "Validating" /\ stage'[e] = "Bookkeeping"

\* C1: in every reachable state the number of ECS tasks in flight in a map
\* run is at most maxConcurrency.
C1_ConcurrencyBound ==
    \A e \in Execs : Cardinality(inflight[e]) <= maxConcurrency

\* C1 witness: the ceiling is reached while another item is still waiting.
C1_Witness ==
    \E e \in Execs :
        /\ stage[e] = "FanningOut"
        /\ Cardinality(inflight[e]) = maxConcurrency
        /\ Waiting(e) # {}

\* C2 as stated: whenever a batch is Finalized, its results are exactly one
\* record per manifest item.
C2_Original ==
    \A e \in Execs : stage[e] = "Finalized" => ResultsMatchManifest(e)

\* C2 amended: a batch Finalized after fan-out (isValid = true) has exactly
\* one record per manifest item and no other record; a batch the choice sent
\* straight to Finalized (isValid = false) has no record at all.
C2_Amended ==
    \A e \in Execs :
        stage[e] = "Finalized" =>
            IF isValid[e] THEN ResultsMatchManifest(e) ELSE results[e] = <<>>

\* C2 witness: a batch finalized after a fan-out over two items.
C2_Witness ==
    \E e \in Execs :
        /\ stage[e] = "Finalized"
        /\ isValid[e]
        /\ Len(manifest[e]) = 2
        /\ Len(results[e]) = 2

\* C3 as stated: a batch in which the worker of an item failed is not
\* aborted by that failure (only an operator's stop may abort it).
C3_PerItemFailureContained ==
    \A e \in Execs :
        FailedItems(e) # {} =>
            (stage[e] # "Aborted" \/ abortCause[e] = "stopped")

\* C4 as stated: the execution is in FanningOut only when isValid = true
\* and the manifest is non-empty.
C4_FanOutOnlyWithWork ==
    \A e \in Execs :
        stage[e] = "FanningOut" => (isValid[e] /\ Len(manifest[e]) > 0)

\* C5 as stated: a batch with an empty manifest whose bookkeeping returned
\* ok leaves Bookkeeping for Finalized, not for FanningOut.
C5_EmptyManifestShortCircuits ==
    [][\A e \in Execs :
          (/\ stage[e] = "Bookkeeping"
           /\ manifest[e] = <<>>
           /\ stage'[e] # "Bookkeeping"
           /\ abortCause'[e] = "none")
          => stage'[e] = "Finalized"]_vars

\* C6: an execution that failed in the validation task or in the bookkeeping
\* task is Aborted, and no item of its manifest was ever dispatched (none
\* started, none running, none with a result).
C6_SystemicFailureAborts ==
    \A e \in Execs :
        abortCause[e] \in {"validation", "bookkeeping"} =>
            /\ stage[e] = "Aborted"
            /\ dispatched[e] = {}
            /\ inflight[e] = {}
            /\ results[e] = <<>>

\* C6 witness: the bookkeeping task failed on a valid batch with work to do.
C6_Witness ==
    \E e \in Execs :
        /\ abortCause[e] = "bookkeeping"
        /\ isValid[e]
        /\ Len(manifest[e]) > 0

StageEdges ==
    {<<"NotStarted", "Validating">>,
     <<"Validating", "Bookkeeping">>,
     <<"Bookkeeping", "FanningOut">>,
     <<"Bookkeeping", "Finalized">>,
     <<"FanningOut", "Finalized">>,
     <<"Validating", "Aborted">>,
     <<"Bookkeeping", "Aborted">>,
     <<"FanningOut", "Aborted">>}

\* C7: every change of an execution's stage follows Validating ->
\* Bookkeeping -> FanningOut -> Finalized (FanningOut may be skipped) or goes
\* from a non-terminal stage to Aborted; nothing leaves Finalized or Aborted.
C7_StageForward ==
    [][\A e \in Execs :
          stage'[e] # stage[e] => <<stage[e], stage'[e]>> \in StageEdges]_vars

\* C7 witness: an execution that went through every stage to Finalized.
C7_Witness ==
    \E e \in Execs : stage[e] = "Finalized" /\ dispatched[e] # {}

\* The first run was stopped during fan-out after some, not all, of its
\* items got a result, and the bucket still holds what that run selected.
InterruptedMidFanOut(e) ==
    /\ abortCause[e] = "stopped"
    /\ results[e] # <<>>
    /\ Len(results[e]) < Len(manifest[e])
    /\ corpus = listing[e]
    /\ \A i \in Items(e) :
          /\ manifest[e][i].action = "Upsert"
          /\ manifest[e][i].fp = corpus[manifest[e][i].uri]

\* C8 as stated: after a run interrupted in fan-out with k of n results, the
\* restarted run dispatches none of the k finished items and ends with
\* exactly n records in its result manifest.
C8_ResumeKeepsAllRecords ==
    \A e1 \in Execs, e2 \in Execs :
        (/\ e1 < e2
         /\ InterruptedMidFanOut(e1)
         /\ listing[e2] = listing[e1]
         /\ isValid[e2]
         /\ stage[e2] = "Finalized")
        => /\ \A i \in dispatched[e2] :
                 manifest[e2][i].uri \notin ResultUris(e1)
           /\ Len(results[e2]) = Len(manifest[e1])

\* The listing holds d with the fingerprint the cache has stored for it.
Unchanged(d) == cache[d] # NoEntry /\ corpus[d] = cache[d].fingerprint

\* C9 as stated: when validation runs a second time in a row (same listing,
\* no fan-out in between), no document with an unchanged fingerprint is in
\* the second manifest.
C9_Original ==
    [][\A e1 \in Execs, e2 \in Execs :
          (/\ e1 < e2
           /\ listing[e1] = corpus
           /\ dispatched[e1] = {}
           /\ ValidationStep(e2))
          => \A d \in Docs :
                Unchanged(d) => d \notin ManifestUris(manifest'[e2])]_vars

\* C9 amended: a validation run never selects a document whose cache entry
\* is Complete with the fingerprint the listing still shows; so the second
\* of two runs has an empty manifest when every document is Complete.
C9_Amended ==
    [][\A e \in Execs :
          ValidationStep(e) =>
              /\ \A d \in Docs :
                    (Unchanged(d) /\ cache[d].status = "Complete")
                        => d \notin ManifestUris(manifest'[e])
              /\ (\A d \in Docs : cache[d].status \in {"None", "Complete"})
                    => manifest'[e] = <<>>]_vars

\* C9 witness: the second run validated to an empty manifest over a document
\* the first run processed to Complete and that has not changed since.
C9_Witness ==
    /\ stage[2] = "Bookkeeping"
    /\ manifest[2] = <<>>
    /\ manifest[1] # <<>>
    /\ listing[2] = listing[1]
    /\ \E d \in Docs : Unchanged(d) /\ cache[d].status = "Complete"

ItemSucceededStep(e, i) ==
    /\ ~HasResult(e, i)
    /\ \E k \in 1..Len(results'[e]) :
          results'[e][k].idx = i /\ results'[e][k].outcome = "Succeeded"

Succeeded(e, i) ==
    \E k \in 1..Len(results[e]) :
        results[e][k].idx = i /\ results[e][k].outcome = "Succeeded"

\* C12 as stated: a change of a document's content made while the batch
\* that selected it was running is not lost.  Once every notification has
\* been handled, a document whose item succeeded and whose object now has a
\* content other than the embedded one is selected by the next validation.
C12_ChangeNotLost ==
    \A e \in Execs, i \in ItemIdx :
        (/\ i \in Items(e)
         /\ manifest[e][i].action = "Upsert"
         /\ Succeeded(e, i)
         /\ events = {}
         /\ corpus[manifest[e][i].uri] # 0
         /\ corpus[manifest[e][i].uri] # vectors[manifest[e][i].uri])
        => manifest[e][i].uri \in ManifestUris(BuildManifest(cache))

\* C13 as stated: an item recorded Failed after a retryable error has had
\* its worker invoked exactly 3 times, an item recorded Failed for a
\* malformed document exactly once, and no item more than 3 times.
C13_BoundedRetry ==
    \A e \in Execs, k \in ItemIdx :
        k \in 1..Len(results[e]) =>
            /\ attempts[e][results[e][k].idx] <= 3
            /\ results[e][k].error = "transient"
                  => attempts[e][results[e][k].idx] = 3
            /\ results[e][k].error = "malformed"
                  => attempts[e][results[e][k].idx] = 1

C15_AbortLetsInFlightFinish ==
    \A e \in Execs :
        abortCause[e] = "stopped" =>
            \A i \in dispatched[e] : HasResult(e, i) \/ i \in inflight[e]

\* C16 as stated: a worker invocation is bounded.  An item in flight
\* eventually leaves its slot, whether or not its worker returns.
C16_Original ==
    \A e \in Execs : (inflight[e] # {}) ~> (inflight[e] = {})

\* C16 amended: no worker invocation is ended by a timeout.  No item gets a
\* timeout outcome, and an item in flight leaves its slot only when its
\* worker returns (its result is recorded) or the execution is stopped.
C16_Amended ==
    [][\A e \in Execs :
          /\ \A k \in 1..Len(results'[e]) : results'[e][k].error # "timeout"
          /\ \A i \in inflight[e] :
                i \notin inflight'[e] =>
                    \/ \E k \in 1..Len(results'[e]) : results'[e][k].idx = i
                    \/ stage'[e] = "Aborted"]_vars

\* C16 witness: a worker holds the only slot and the next item cannot be
\* dispatched while it does.
C16_Witness ==
    \E e \in Execs, i \in ItemIdx :
        /\ stage[e] = "FanningOut"
        /\ inflight[e] = {i}
        /\ attempts[e][i] = 1
        /\ Waiting(e) # {}
        /\ ~ \E j \in ItemIdx : CanDispatch(e, j)

\* C17: the manifest key and the result prefix of an execution are those of
\* its own name.  Every record of a map run was read from its execution's
\* key and is written under its execution's prefix, and for two different
\* executions neither the key nor the prefix nor the populated result
\* location is the same.
C17_LocationsByIdentity ==
    \A e1 \in Execs, e2 \in Execs :
        e1 # e2 =>
            /\ itemReaderKey(ExecutionName(e1))
                  # itemReaderKey(ExecutionName(e2))
            /\ \A k \in 1..Len(results[e1]) :
                  /\ results[e1][k].key = itemReaderKey(ExecutionName(e1))
                  /\ results[e1][k].key # itemReaderKey(ExecutionName(e2))
                  /\ results[e1][k].prefix
                        = resultWriterPrefix(ExecutionName(e1))
                  /\ results[e1][k].prefix
                        # resultWriterPrefix(ExecutionName(e2))
            /\ resultLocation[e1] # NoLocation
                  => resultLocation[e1] # resultLocation[e2]

\* C17 witness: two executions have both recorded results and exported them.
C17_Witness ==
    /\ results[1] # <<>>
    /\ results[2] # <<>>
    /\ resultLocation[1] # NoLocation
    /\ resultLocation[2] # NoLocation

\* ECS tasks in flight, over all executions.
InFlightTotal ==
    Cardinality({p \in Execs \X ItemIdx : p[2] \in inflight[p[1]]})

\* C18 as stated: the number of tasks in flight, summed over the executions
\* that are running, is at most maxConcurrency.
C18_GlobalCeiling == InFlightTotal <= maxConcurrency

C20_Original ==
    \A e \in Execs :
        (resultLocation[e] # NoLocation /\ results[e] # <<>>)
            => stage[e] = "Finalized"

\* C20 amended: nothing is under the result location while the batch is
\* Validating or Bookkeeping, nor for a batch that never entered the map
\* (validation or bookkeeping failed, or isValid = false); from FanningOut
\* on, every recorded result is under the location of its own execution,
\* and it stays there when the batch ends Finalized or Aborted.
C20_Amended ==
    \A e \in Execs :
        /\ stage[e] \in {"NotStarted", "Validating", "Bookkeeping"}
              => (resultLocation[e] = NoLocation /\ results[e] = <<>>)
        /\ resultLocation[e] # NoLocation
              => /\ resultLocation[e] = resultWriterPrefix(ExecutionName(e))
                 /\ isValid[e]
                 /\ bookkeeper[e] = <<"ok">>
        /\ \A i \in Items(e) : Succeeded(e, i)
              => resultLocation[e] # NoLocation
        /\ stage[e] = "Finalized" /\ isValid[e]
              => resultLocation[e] # NoLocation

\* C20 witness: a record is under the result location while the batch is
\* still fanning out.
C20_Witness ==
    \E e \in Execs :
        /\ stage[e] = "FanningOut"
        /\ results[e] # <<>>
        /\ resultLocation[e] # NoLocation
        /\ Waiting(e) # {}

\* The cache entry of d tells the last change of the object of d.
ReflectsBucket(d) ==
    IF corpus[d] # 0
    THEN cache[d].fingerprint = corpus[d] /\ cache[d].status # "Deleted"
    ELSE cache[d] = NoEntry \/ cache[d].status = "Deleted"

\* C21 as stated: whatever the order in which the notifications of one
\* object are handled, once they are all handled the entry holds the
\* fingerprint (or the deletion) of the most recent change of the object.
C21_NewestChangeWins ==
    events = {} => \A d \in Docs : ReflectsBucket(d)

\* C26: when the bookkeeping task returns ok, the manifest and the isValid
\* flag are what validation produced, and the choice is taken on that flag.
C26_ValidationOutputCarried ==
    [][\A e \in Execs :
          (stage[e] = "Bookkeeping" /\ bookkeeper'[e] # bookkeeper[e]
           /\ abortCause'[e] = "none")
          => /\ manifest'[e] = manifest[e]
             /\ isValid'[e] = isValid[e]
             /\ stage'[e] = ingestionChoice(isValid[e])]_vars

\* C26 witness: right after the bookkeeper returned ok, a valid batch with
\* work to do has entered the map.
C26_Witness ==
    \E e \in Execs :
        /\ bookkeeper[e] = <<"ok">>
        /\ stage[e] = "FanningOut"
        /\ isValid[e]
        /\ manifest[e] # <<>>
        /\ dispatched[e] = {}

\* Status changes the claim allows: forward ones, and back to Pending from
\* Complete (on a new fingerprint) and from Failed.
AllowedStatusSteps ==
    {<<"None", "Pending">>, <<"Pending", "Processing">>,
     <<"Pending", "Complete">>, <<"Pending", "Failed">>,
     <<"Processing", "Complete">>, <<"Processing", "Failed">>,
     <<"Pending", "Deleted">>, <<"Processing", "Deleted">>,
     <<"Complete", "Deleted">>, <<"Failed", "Deleted">>,
     <<"Deleted", "None">>, <<"Failed", "Pending">>}

HandledCreated(d) ==
    \E f \in Fps :
        CreatedEvent(d, f) \in events /\ CreatedEvent(d, f) \notin events'

HandledRemoved(d) ==
    RemovedEvent(d) \in events /\ RemovedEvent(d) \notin events'

\* A running task of an item of d with the given action ends in this step.
WorkerEnds(d, action) ==
    \E e \in Execs : \E i \in inflight[e] :
        /\ i \notin inflight'[e]
        /\ manifest[e][i].uri = d
        /\ manifest[e][i].action = action

IsScanOf(seq, c, s) ==
    /\ {seq[k] : k \in 1..Len(seq)} = {d \in Docs : c[d].status = s}
    /\ \A k \in 1..Len(seq) : \A m \in 1..Len(seq) : k < m => seq[k] < seq[m]

ResultRecordedStep(e, i) ==
    /\ Len(results'[e]) = Len(results[e]) + 1
    /\ results'[e][Len(results'[e])].idx = i

\* C24 as stated: when the result of an Upsert item is recorded, the cache
\* entry of its document is Complete with the processed fingerprint exactly
\* if the result is Succeeded, and Failed exactly if the result is Failed.
C24_CacheAgreesWithResult ==
    [][\A e \in Execs : \A i \in inflight[e] :
          (manifest[e][i].action = "Upsert" /\ ResultRecordedStep(e, i))
          => LET r == results'[e][Len(results'[e])]
                 d == manifest[e][i].uri
             IN /\ r.outcome = "Succeeded"
                      <=> cache'[d] = [fingerprint |-> manifest[e][i].fp,
                                       status |-> "Complete"]
                /\ r.outcome = "Failed" <=> cache'[d].status = "Failed"]_vars

MaxChunk == 9

\* Number.prototype.toString: the decimal digits of n.
RECURSIVE toString(_)
toString(n) == IF n < 10 THEN <<n>> ELSE toString(n \div 10) \o <<n % 10>>

\* constants.CHUNK_SIZE_DOC_SPLIT and constants.OVERLAP_FOR_DOC_SPLIT, the
\* documented defaults (values of a small deployment).
CHUNK_SIZE_DOC_SPLIT == toString(4)

OVERLAP_FOR_DOC_SPLIT == toString(1)

\* (override || fallback).toString(): an absent or zero override is falsy.
OrDefault(override, fallback) ==
    IF override = 0 THEN fallback ELSE toString(override)

\* environment of the 'embeddings' container
embeddingsEnvironment(chunkingConfiguration) ==
    [chunkSize |-> OrDefault(chunkingConfiguration.chunkSize,
                             CHUNK_SIZE_DOC_SPLIT),
     chunkOverlap |-> OrDefault(chunkingConfiguration.chunkOverlap,
                                OVERLAP_FOR_DOC_SPLIT)]

\* environment of vectorStoreManagementFunction
vectorStoreManagementEnvironment(chunkingConfiguration) ==
    [chunkSize |-> CHUNK_SIZE_DOC_SPLIT,
     chunkOverlap |-> OVERLAP_FOR_DOC_SPLIT]

\* Any corpus configuration; 0 stands for a value that is not configured.
InitConfig ==
    /\ InitPipeline
    /\ message = NoMessage
    /\ \E s \in 0..MaxChunk, o \in 0..MaxChunk :
         deployment = [NoDeployment EXCEPT
                         !.config = [chunkSize |-> s, chunkOverlap |-> o]]

\* The stack is synthesized and deployed: both environments are fixed.
DeployPipeline ==
    /\ deployment.embeddings = NoEnvironment
    /\ deployment' = [deployment EXCEPT
           !.embeddings = embeddingsEnvironment(deployment.config),
           !.bookkeeper = vectorStoreManagementEnvironment(deployment.config)]
    /\ UNCHANGED <<corpus, events, cache, vectors, execVars, message>>

\* A batch runs: the bookkeeper and the workers read their environments.
RunBatch ==
    /\ deployment.embeddings # NoEnvironment
    /\ deployment.batch = NoBatchConfiguration
    /\ deployment' = [deployment EXCEPT
           !.batch = [bookkeeper |-> deployment.bookkeeper,
                      worker |-> deployment.embeddings]]
    /\ UNCHANGED <<corpus, events, cache, vectors, execVars, message>>

NextConfig == DeployPipeline \/ RunBatch

SpecConfig == InitConfig /\ [][NextConfig]_vars

\* C27 as stated: the chunk size and chunk overlap the bookkeeper of a batch
\* uses equal those its embedding workers use, for every corpus
\* configuration.
C27_SameBatchConfiguration ==
    deployment.batch # NoBatchConfiguration
        => deployment.batch.bookkeeper = deployment.batch.worker

\* The validation of e returns or fails in this step.
ValidationEnds(e) == stage[e] = "Validating" /\ stage'[e] # "Validating"

\* The bookkeeper of e returns or fails in this step.
BookkeeperEnds(e) == stage[e] = "Bookkeeping" /\ stage'[e] # "Bookkeeping"

\* A running Upsert task of d ends and leaves the fingerprint it processed.
WorkerWritesProcessed(d) ==
    \E e \in Execs : \E i \in inflight[e] :
        /\ i \notin inflight'[e]
        /\ manifest[e][i].uri = d
        /\ manifest[e][i].action = "Upsert"
        /\ cache'[d].fingerprint = manifest[e][i].fp

WorkerReturns(e) ==
    \/ \E i \in ItemIdx : ItemSucceeds(e, i)
    \/ \E i \in ItemIdx, kind \in ErrorKinds : ItemFails(e, i, kind)

\* One batch execution over a bucket that was filled before it is started;
\* notifications may still be handled while it runs.
NextBatch ==
    \/ stage[1] = "NotStarted" /\ CorpusStep
    \/ CacheUpdateStep
    \/ ExecStep(1)

\* That batch under the assumption that every stage invocation and every
\* dispatched worker returns, and that the state machine takes its own
\* transitions.
SpecReturns ==
    /\ Init
    /\ [][NextBatch]_vars
    /\ WF_vars(ServiceStep(1))
    /\ WF_vars(WorkerReturns(1))

\* C29: a started batch reaches Finalized or Aborted, and an item of its
\* manifest that the map can dispatch (no task yet, a slot free) does not
\* wait forever: it is dispatched, or the batch has ended.
C29_EveryBatchTerminates ==
    /\ (stage[1] \in {"Validating", "Bookkeeping", "FanningOut"})
           ~> (stage[1] \in Terminal)
    /\ \A i \in ItemIdx :
           (stage[1] = "FanningOut" /\ CanDispatch(1, i))
               ~> (i \in dispatched[1] \/ stage[1] \in Terminal)

\* C29 witness: a batch has run its whole manifest of two items, one task
\* after the other, and is Finalized.
C29_Witness ==
    /\ stage[1] = "Finalized"
    /\ Len(manifest[1]) = 2
    /\ dispatched[1] = {1, 2}
    /\ Len(results[1]) = 2

\* -------------------------------------------- chat message content parser
\* A message text is a string over these units.  The three literal openers
\* of the patterns are one unit each: "I" is (!?#Image:https:// , "V" is
\* (!?#Video:https:// and "T" is (!?#Timestamp: ; "d" is a digit, "x" any
\* character that is none of the others.
Chars == {"I", "V", "T", "d", ".", ")", "x"}

MaxLen == 6

Texts == UNION {[1..n -> Chars] : n \in 0..MaxLen}

Patterns == {"timestamp", "video", "image"}

\* String offsets count from 0, as in the source.
CharAt(text, k) == text[k + 1]

\* text.substring(from, to) with from <= to
Substring(text, from, to) == SubSeq(text, from + 1, to)

MinOf(S) == CHOOSE k \in S : \A j \in S : k <= j

\* [^)]+\) from offset `from`: the offset of the first ")" at or after
\* `from`, -1 without one.
FirstClose(text, from) ==
    LET closes == {k \in from..(Len(text) - 1) : CharAt(text, k) = ")"}
    IN IF closes = {} THEN -1 ELSE MinOf(closes)

\* \d* from offset k: the offset after the digits that start at k.
RECURSIVE DigitsEnd(_, _)
DigitsEnd(text, k) ==
    IF k < Len(text) /\ CharAt(text, k) = "d"
    THEN DigitsEnd(text, k + 1)
    ELSE k

\* imagePattern / videoPattern tried at offset p: the end of the match
\* (exclusive), -1 when the pattern does not match there.  The url group is
\* https:// followed by at least one character other than ")".
MediaMatchEnd(text, opener, p) ==
    IF CharAt(text, p) # opener
    THEN -1
    ELSE LET q == FirstClose(text, p + 1)
         IN IF q = -1 \/ q = p + 1 THEN -1 ELSE q + 1

\* timestampPattern tried at offset p: \d+ \.? \d* \)
TimestampMatchEnd(text, p) ==
    IF CharAt(text, p) # "T"
    THEN -1
    ELSE LET a == DigitsEnd(text, p + 1)
             b == IF a < Len(text) /\ CharAt(text, a) = "." THEN a + 1 ELSE a
             c == DigitsEnd(text, b)
         IN IF a > p + 1 /\ c < Len(text) /\ CharAt(text, c) = ")"
            THEN c + 1
            ELSE -1

MatchEnd(text, pattern, p) ==
    IF pattern = "timestamp" THEN TimestampMatchEnd(text, p)
    ELSE IF pattern = "video" THEN MediaMatchEnd(text, "V", p)
    ELSE MediaMatchEnd(text, "I", p)

\* The node pushed for a match: <ImageRenderer url>, <VideoRenderer url> or
\* an empty fragment, keyed by the offset of the match.
MatchNode(text, pattern, p, end) ==
    [kind |-> pattern,
     key |-> p,
     url |-> IF pattern = "timestamp" THEN <<>>
             ELSE Substring(text, p + 1, end - 1)]

\* while ((m = pattern.exec(text)) !== null) with a /g pattern: the leftmost
\* match at or after lastIndex, then on from its end.
RECURSIVE ExecAll(_, _, _)
ExecAll(text, pattern, lastIndex) ==
    LET starts == {p \in lastIndex..(Len(text) - 1) :
                      MatchEnd(text, pattern, p) # -1}
    IN IF starts = {}
       THEN <<>>
       ELSE LET p == MinOf(starts)
                end == MatchEnd(text, pattern, p)
            IN <<[start |-> p, end |-> end,
                  node |-> MatchNode(text, pattern, p, end)]>>
               \o ExecAll(text, pattern, end)

\* allMatches after the three loops: timestamps, then videos, then images.
AllMatches(text) ==
    ExecAll(text, "timestamp", 0) \o ExecAll(text, "video", 0)
        \o ExecAll(text, "image", 0)

RECURSIVE InsertByStart(_, _)
InsertByStart(sorted, m) ==
    IF sorted = <<>> THEN <<m>>
    ELSE IF m.start < Head(sorted).start THEN <<m>> \o sorted
    ELSE <<Head(sorted)>> \o InsertByStart(Tail(sorted), m)

\* Stable sort by start: each match goes behind those that do not start
\* after it.
RECURSIVE InsertionSort(_)
InsertionSort(matches) ==
    IF matches = <<>> THEN <<>>
    ELSE InsertByStart(InsertionSort(SubSeq(matches, 1, Len(matches) - 1)),
                       matches[Len(matches)])

\* (variant: allMatches used in the order the loops pushed them)
SortUnsorted(matches) == matches

\* allMatches.sort((a, b) => a.start - b.start)
SortMatches(matches) == InsertionSort(matches)

TextPart(str) == [kind |-> "text", content |-> str]

\* The for loop over the matches from the k-th on, and the remaining text.
RECURSIVE BuildParts(_, _, _, _, _)
BuildParts(text, matches, k, lastIndex, parts) ==
    IF k > Len(matches)
    THEN IF lastIndex < Len(text)
         THEN Append(parts, TextPart(Substring(text, lastIndex, Len(text))))
         ELSE parts
    ELSE LET match == matches[k]
             before == IF match.start > lastIndex
                       THEN Append(parts,
                                TextPart(Substring(text, lastIndex,
                                                   match.start)))
                       ELSE parts
         IN BuildParts(text, matches, k + 1, match.end,
                       Append(before, match.node))

parseMessageContent(text) ==
    IF text = <<>>
    THEN <<TextPart(text)>>
    ELSE LET parts == BuildParts(text, SortMatches(AllMatches(text)), 1, 0,
                                 <<>>)
         IN IF Len(parts) > 0 THEN parts ELSE <<TextPart(text)>>

\* Any message text arrives; the Message component renders it once.
InitParser ==
    /\ InitPipeline
    /\ deployment = NoDeployment
    /\ \E t \in Texts :
         message = [text |-> t, parsed |-> FALSE, parts |-> <<>>]

RenderMessage ==
    /\ ~message.parsed
    /\ message' = [message EXCEPT
           !.parsed = TRUE,
           !.parts = parseMessageContent(message.text)]
    /\ UNCHANGED <<corpus, events, cache, vectors, execVars, deployment>>

NextParser == RenderMessage

SpecParser == InitParser /\ [][NextParser]_vars

\* Offsets of the text that lie inside a marker of any of the three kinds.
MarkerOffsets(text) ==
    {k \in 0..(Len(text) - 1) :
        \E pattern \in Patterns : \E p \in 0..k :
            MatchEnd(text, pattern, p) > k}

\* The characters before offset n that lie in no marker, in order.
RECURSIVE OrdinaryTextBefore(_, _)
OrdinaryTextBefore(text, n) ==
    IF n = 0 THEN <<>>
    ELSE IF (n - 1) \in MarkerOffsets(text)
         THEN OrdinaryTextBefore(text, n - 1)
         ELSE Append(OrdinaryTextBefore(text, n - 1), CharAt(text, n - 1))

\* The string parts among the first j parts, concatenated.
RECURSIVE StringPartsUpTo(_, _)
StringPartsUpTo(parts, j) ==
    IF j = 0 THEN <<>>
    ELSE IF parts[j].kind = "text"
         THEN StringPartsUpTo(parts, j - 1) \o parts[j].content
         ELSE StringPartsUpTo(parts, j - 1)

MediaPartIndexes(parts) ==
    {j \in 1..Len(parts) : parts[j].kind \in {"image", "video"}}

HasNoMarker(text) ==
    \A pattern \in Patterns : \A p \in 0..(Len(text) - 1) :
        MatchEnd(text, pattern, p) = -1

\* C30: for every text, the string parts of parseMessageContent(text),
\* concatenated in order, are the text with every marker removed; every
\* image or video marker has exactly one media node, and every media node
\* stands for a marker and follows exactly the ordinary text that precedes
\* its marker; a non-empty text without markers comes back as [text].
C30_TextKeptAroundMarkers ==
    message.parsed =>
        LET text == message.text
            parts == message.parts
        IN /\ StringPartsUpTo(parts, Len(parts))
                  = OrdinaryTextBefore(text, Len(text))
           /\ \A pattern \in {"image", "video"} :
                LET found == ExecAll(text, pattern, 0)
                IN \A n \in 1..Len(found) :
                      Cardinality({j \in MediaPartIndexes(parts) :
                                      /\ parts[j].kind = pattern
                                      /\ parts[j].key = found[n].start}) = 1
           /\ Cardinality(MediaPartIndexes(parts))
                  = Len(ExecAll(text, "image", 0))
                      + Len(ExecAll(text, "video", 0))
           /\ \A j \in MediaPartIndexes(parts) :
                /\ MatchEnd(text, parts[j].kind, parts[j].key) # -1
                /\ StringPartsUpTo(parts, j - 1)
                       = OrdinaryTextBefore(text, parts[j].key)
           /\ (text # <<>> /\ HasNoMarker(text))
                  => parts = <<TextPart(text)>>

\* C30 witness: a parsed text with a timestamp marker after an image marker,
\* where the matches were pushed in the other order.
C30_Witness ==
    /\ message.parsed
    /\ message.text = <<"I", "x", ")", "T", "d", ")">>
    /\ Len(message.parts) = 2
    /\ message.parts[1].kind = "image"
    /\ message.parts[2].kind = "timestamp"

\* C30 second case: ordinary text on both sides of a video marker.
C30_TextAroundVideo ==
    /\ message.parsed
    /\ Len(message.parts) = 3
    /\ message.parts[1].kind = "text"
    /\ message.parts[2].kind = "video"
    /\ message.parts[3].kind = "text"

====
